---- MODULE Spec2Model ----
(***************************************************************************)
(* Model of the Huanyang VFD driver (package vfdio, v1/vfdio/inverter.go). *)
(*                                                                         *)
(* One HyInverter handle, its three goroutines (processor, parser,         *)
(* outFrequencyRequester) and the API calls Open, GCode, Close, Online.    *)
(* Strings are sequences of one-character strings, bytes are 0..255,       *)
(* uint16 values are 0..65535, times are integer milliseconds.             *)
(***************************************************************************)
EXTENDS Integers, Sequences, FiniteSets, TLC

(***************************************************************************)
(* Bounds of the model.                                                    *)
(***************************************************************************)
\* number of sub-commands the API user hands to GCode on the command path
MaxTokens == 11
\* number of "?" that outFrequencyRequester submits
MaxPolls == 1
\* the same number in the life cycle
MaxLifeTokens == 3
\* largest value of the clock, in milliseconds
MaxNow == 150
\* longest accumulation buffer of parser that is followed
MaxBuf == 12
\* longest payload handed to signMessage by the test
MaxPayload == 4
\* number of one-token calls of GCode on the token path
MaxSingles == 2
\* number of tokens submitted while responses of the drive are parsed
MaxRaceTokens == 1
\* number of sub-commands submitted against the clock
MaxQuietTokens == 2
\* number of sub-commands submitted under fair scheduling
MaxProgressTokens == 4

(***************************************************************************)
(* Program constants.                                                      *)
(***************************************************************************)
\* make(chan string, 10)
QueueCap == 10
\* time.Sleep(time.Millisecond * 110)
QuietMs == 110
\* read.Sub(lastRead).Seconds() > 0.05
GapMs == 50
\* rxBuf := make([]byte, 10)
RxBufLen == 10
\* len(msg) == 8
FrameLen == 8
\* crc16.Modbus: reflected polynomial 0x8005 (0xA001), initial value 0xFFFF
CrcPoly == 40961
CrcInit == 65535

(***************************************************************************)
(* Small arithmetic helpers.                                               *)
(***************************************************************************)
Min(S) == CHOOSE x \in S : \A y \in S : x <= y

\* 2^n for n in 0..30
Pow2(n) ==
    << 1, 2, 4, 8, 16, 32, 64, 128, 256, 512, 1024, 2048, 4096, 8192, 16384, 32768,
       65536, 131072, 262144, 524288, 1048576, 2097152, 4194304, 8388608, 16777216,
       33554432, 67108864, 134217728, 268435456, 536870912, 1073741824 >>[n + 1]

\* number of bits of n (0 for 0)
BitLen(n) == Cardinality({i \in 0..30 : Pow2(i) <= n})

\* bit i (of weight p = 2^i) of the exclusive or of a and b
XorBit(a, b, p) == ((((a \div p) % 2) + ((b \div p) % 2)) % 2) * p

\* a ^ b on 16-bit values
Xor(a, b) ==
    IF a < 0 \/ b < 0 THEN 0
    ELSE (((XorBit(a, b, 1) + XorBit(a, b, 2)) + (XorBit(a, b, 4) + XorBit(a, b, 8)))
          + ((XorBit(a, b, 16) + XorBit(a, b, 32))
             + (XorBit(a, b, 64) + XorBit(a, b, 128))))
         + (((XorBit(a, b, 256) + XorBit(a, b, 512))
             + (XorBit(a, b, 1024) + XorBit(a, b, 2048)))
            + ((XorBit(a, b, 4096) + XorBit(a, b, 8192))
               + (XorBit(a, b, 16384) + XorBit(a, b, 32768))))

(***************************************************************************)
(* CRC16 (MODBUS) and signMessage.  hash16 is crc16.New(crc16.Modbus);     *)
(* Sum appends the low byte of the sum first (the table is not BigEnd).    *)
(***************************************************************************)
\* one bit of the reflected division by the polynomial
CrcStep(c) == IF c % 2 = 1 THEN Xor(c \div 2, CrcPoly) ELSE c \div 2

\* the table of crc16.Modbus: entry i is i divided through eight times
CrcTable ==
    [i \in 0..255 |->
        CrcStep(CrcStep(CrcStep(CrcStep(CrcStep(CrcStep(CrcStep(CrcStep(i))))))))]

\* hash16.Write on one byte: table[byte(crc) ^ b] ^ (crc >> 8)
CrcByte(crc, b) ==
    IF crc < 0 THEN 0 ELSE Xor(CrcTable[Xor(crc % 256, b)], crc \div 256)

\* hash16.Write(data) starting from the running sum crc, byte by byte (the
\* sum after each byte is bound to its value c before the next byte is taken)
RECURSIVE CrcWrite(_, _)
CrcWrite(crc, data) ==
    IF data = <<>> THEN crc
    ELSE CHOOSE r \in {CrcWrite(c, Tail(data)) : c \in {CrcByte(crc, Head(data))}} : TRUE

\* hash16.Reset(); hash16.Write(data); hash16.Sum16()
Crc16(data) == CrcWrite(CrcInit, data)

\* a sum appended high byte first
HashSumBigEndian(crc, data) == data \o <<crc \div 256, crc % 256>>

\* hash16.Sum(data): append(data, byte(s), byte(s>>8))
HashSum(crc, data) == data \o <<crc % 256, crc \div 256>>

\* o.signMessage(data)
signMessage(data) == HashSum(Crc16(data), data)

(***************************************************************************)
(* float32 arithmetic of the rpm <-> frequency conversions.  rpmToHertz    *)
(* is the float32 value m / 2^22 (m < 2^24); products and quotients are    *)
(* rounded to 24 significant bits (nearest, ties to even) and then         *)
(* truncated by the conversion to uint16.  All intermediate values stay    *)
(* below 2^31.                                                             *)
(***************************************************************************)
\* float32(3.47222) = 14563546 / 2^22
Mant347222 == 14563546

\* sh more bits (sh <= 7) of the binary long division by m, from
\* qr = <<quotient so far, remainder so far>>
DivStep(qr, sh, m) ==
    LET x == qr[2] * Pow2(sh)
    IN  <<qr[1] * Pow2(sh) + (x \div m), x % m>>

\* k more bits of the binary long division by m
RECURSIVE LongDiv(_, _, _)
LongDiv(qr, k, m) ==
    IF k = 0 THEN qr
    ELSE LET sh == IF k >= 7 THEN 7 ELSE k
         IN  LongDiv(DivStep(qr, sh, m), k - sh, m)

\* integer part of float32(n) * (m / 2^22), computed in float32
F32MulTrunc(n, m) ==
    LET a  == n * (m \div 2048)
        b  == n * (m % 2048)
        c  == a + (b \div 2048)
        hi == c \div 2048
        lo == (c % 2048) * 2048 + (b % 2048)
        bl == BitLen(hi)
    IN  IF bl <= 2 THEN hi
        ELSE LET d    == bl - 2
                 low  == lo % Pow2(d)
                 half == Pow2(d - 1)
                 odd  == ((lo \div Pow2(d)) % 2) = 1
                 up   == low > half \/ (low = half /\ odd)
             IN  IF up /\ (lo - low + Pow2(d) = Pow2(22)) THEN hi + 1 ELSE hi

\* integer part of float32(n) / (m / 2^22), computed in float32 (n < m)
F32DivTrunc(n, m) ==
    LET ir == LongDiv(<<0, n>>, 22, m)
        i  == ir[1]
    IN  IF i = 0 THEN 0
        ELSE LET f   == 24 - BitLen(i)
                 fr  == LongDiv(<<0, ir[2]>>, f, m)
                 up  == 2 * fr[2] > m \/ (2 * fr[2] = m /\ fr[1] % 2 = 1)
             IN  IF up /\ fr[1] = Pow2(f) - 1 THEN i + 1 ELSE i

\* uint16(x) of a non-negative float that may not fit: the result is
\* implementation-dependent when x > 65535
Uint16Conv(x) == IF x <= 65535 THEN {x} ELSE {x % 65536, 65535}

(***************************************************************************)
(* Strings: a string is a sequence of one-character strings.               *)
(***************************************************************************)
UpperCase == << "A", "B", "C", "D", "E", "F", "G", "H", "I", "J", "K", "L", "M",
                "N", "O", "P", "Q", "R", "S", "T", "U", "V", "W", "X", "Y", "Z" >>
LowerCase == << "a", "b", "c", "d", "e", "f", "g", "h", "i", "j", "k", "l", "m",
                "n", "o", "p", "q", "r", "s", "t", "u", "v", "w", "x", "y", "z" >>
DigitChars == << "0", "1", "2", "3", "4", "5", "6", "7", "8", "9" >>

Range(f) == {f[i] : i \in DOMAIN f}
Letters == Range(UpperCase) \cup Range(LowerCase)
Digits == Range(DigitChars)
Signs == {"-", "+"}
Dots == {"."}
Spaces == {" ", "\t", "\n", "\r"}

\* first index j >= i of s whose character is not in S (Len(s)+1 if none)
SkipSet(s, i, S) ==
    LET rest == {j \in i..Len(s) : s[j] \notin S}
    IN  IF rest = {} THEN Len(s) + 1 ELSE Min(rest)

\* gcodeSeparator, `([a-zA-Z][\-+]*\d+\.*\d*)\s*`, matched at index i of s:
\* <<0, 0>> if there is no match there, otherwise << the index after group 1,
\* the index after the match >>
SeparatorMatch(s, i) ==
    IF i > Len(s) \/ s[i] \notin Letters THEN <<0, 0>>
    ELSE LET a == SkipSet(s, i + 1, Signs)
             b == SkipSet(s, a, Digits)
         IN  IF b = a THEN <<0, 0>>
             ELSE LET g == SkipSet(s, SkipSet(s, b, Dots), Digits)
                  IN  <<g, SkipSet(s, g, Spaces)>>

\* gcodeSeparator.ReplaceAllString(s, `$1 `), from index i on
RECURSIVE ReplaceAllFrom(_, _)
ReplaceAllFrom(s, i) ==
    IF i > Len(s) THEN <<>>
    ELSE LET m == SeparatorMatch(s, i)
         IN  IF m[1] = 0 THEN <<s[i]>> \o ReplaceAllFrom(s, i + 1)
             ELSE SubSeq(s, i, m[1] - 1) \o <<" ">> \o ReplaceAllFrom(s, m[2])

\* strings.Fields(s), from index i on
RECURSIVE FieldsFrom(_, _)
FieldsFrom(s, i) ==
    LET a == SkipSet(s, i, Spaces)
    IN  IF a > Len(s) THEN <<>>
        ELSE LET b == SkipSet(s, a, {c \in Range(s) : c \notin Spaces})
             IN  <<SubSeq(s, a, b - 1)>> \o FieldsFrom(s, b)

\* the preprocessor of GCode: cmd -> subCmds
SubCmds(cmd) == FieldsFrom(ReplaceAllFrom(cmd, 1), 1)

ToLowerChar(c) ==
    IF \E i \in 1..26 : UpperCase[i] = c
    THEN LowerCase[CHOOSE i \in 1..26 : UpperCase[i] = c]
    ELSE c

\* strings.ToLower
ToLower(s) == [i \in 1..Len(s) |-> ToLowerChar(s[i])]

\* strings.TrimSpace
TrimSpace(s) ==
    LET keep == {j \in 1..Len(s) : s[j] \notin Spaces}
    IN  IF keep = {} THEN <<>>
        ELSE SubSeq(s, Min(keep), CHOOSE j \in keep : \A k \in keep : k <= j)

DigitVal(c) == (CHOOSE i \in 1..10 : DigitChars[i] = c) - 1

\* strconv.ParseUint(s, 10, 16): the value, or -1 for an error (empty, a
\* character that is no digit, or a value above 65535)
RECURSIVE ParseDigits(_, _)
ParseDigits(s, acc) ==
    IF s = <<>> THEN acc
    ELSE IF Head(s) \notin Digits THEN -1
    ELSE LET v == acc * 10 + DigitVal(Head(s))
         IN  IF v > 65535 THEN -1 ELSE ParseDigits(Tail(s), v)

ParseUint16(s) == IF s = <<>> THEN -1 ELSE ParseDigits(s, 0)

\* binary.BigEndian.PutUint16
PutUint16(v) == <<v \div 256, v % 256>>

\* the two bytes read low byte first
Uint16LittleEndian(b) == b[1] + b[2] * 256

\* binary.BigEndian.Uint16
Uint16(b) == b[1] * 256 + b[2]

(***************************************************************************)
(* Inputs of the model.                                                    *)
(***************************************************************************)
\* the goroutines and API users that call GCode
Callers == {"user", "poller"}

\* "M3S1000": two sub-commands without separating whitespace
TextRun == << "M", "3", "S", "1", "0", "0", "0" >>
\* eleven sub-commands, one more than the channel holds
TextLong ==
    << "M", "3", " ", "S", "2", " ", "m", "4", "s", "3", " ", "M", "5", " ", "?", " ", "x", "1", "M", "0", "3", " ", "m", "0", "4", " ", "e", "n", "d", " ", "S", "1", "0", "0", "0" >>
\* the texts the API user passes to GCode
Texts == {TextRun, TextLong}
\* handle.GCode("?") of outFrequencyRequester
TextQuery == << "?" >>

\* texts of one sub-command each: every token processor knows in some
\* spelling, speeds that fit, that overflow the product and that do not
\* parse, and tokens it does not know
SingleTexts ==
    { << "E", "n", "d" >>,
      << "M", "0" >>,
      << "m", "1" >>,
      << "M", "3", "0" >>,
      << "m", "6", "0" >>,
      << "M", "5" >>,
      << "m", "0", "5" >>,
      << "M", "3" >>,
      << "m", "0", "3" >>,
      << "m", "4" >>,
      << "M", "0", "4" >>,
      << "?" >>,
      << "S", "1", "0", "0", "0" >>,
      << "s", "2" >>,
      << "s", "1", "8", "8", "7", "4" >>,
      << "s", "6", "5", "5", "3", "5" >>,
      << "s", "7", "0", "0", "0", "0" >>,
      << "s", "1", ".", "5" >>,
      << "s" >>,
      << "S", "t", "o", "p" >>,
      << "m", "2" >>,
      << "x", "1" >> }

\* line 106-107 on each of these texts: cleanedGcode, then subCmds
\* texts of two sub-commands: each kind of command followed by another
QuietTexts ==
    { << "M", "5", "M", "3" >>, << "M", "3", " ", "M", "4" >>,
      << "M", "4", "S", "2" >>, << "S", "2", " ", "?" >>, << "?", " ", "M", "5" >>,
      << "x", "1", "M", "3" >> }

\* texts of two sub-commands, written and skipped ones
ProgressTexts ==
    { << "M", "3", " ", "E", "n", "d" >>, << "x", "1", " ", "M", "5" >>,
      << "?", " ", "m", "4" >> }

\* gcodeSeparator applied to the texts of the model
Preprocessed ==
    [t \in Texts \cup {TextQuery} \cup SingleTexts \cup QuietTexts \cup ProgressTexts |->
        SubCmds(t)]

\* Open's parameters: rpmToHertz (as float32 mantissa) and rpmPollInterval (ms)
Configs == {[m |-> Mant347222, poll |-> 50]}

\* the zero time.Time of a handle that has received nothing
ZeroTime == -1

(***************************************************************************)
(* State.                                                                  *)
(***************************************************************************)
VARIABLES
    \* HyInverter
    port,             \* o.port: "nil", "open" or "closed"
    onceDone,         \* o.once has run
    stop,             \* o.stop
    cmdChannel,       \* o.cmdChannel: the buffered tokens, oldest first
    chanMade,         \* number of channels made (0: o.cmdChannel is nil)
    setFrequency,     \* o.setFrequency
    outputFrequency,  \* o.outputFrequency
    outputRpm,        \* o.outputRpm
    lastReceived,     \* o.lastReceived
    pollIntervalMs,   \* o.pollIntervalSec * 1000
    rpmToHertz,       \* o.rpmToHertz, as mantissa m of m / 2^22
    commandQueue,     \* o.commandQueue
    hash16,           \* running sum of o.hash16
    \* goroutine processor
    procPc, procCmd, procFrame, procWake, nProcessor,
    \* goroutine parser
    parsPc, modbusRtu, lastRead, readAt, nParser,
    \* goroutine outFrequencyRequester
    reqPc, reqWake, nRequester,
    \* GCode calls in progress and their results
    call,
    \* result of the last Open call
    openRet,
    \* environment: clock, serial line, process
    now, clockOn, budget, pollsLeft, wire, pending, crashed,
    \* time at which the last Write of processor returned (ZeroTime: none)
    wroteAt,
    \* TestModbusCrc16: position, the payload and the signed message
    testPc, testMsg, testSigned,
    \* history: tokens accepted onto the channel that processor has not
    \* received, the token processor has to be handling, Write calls in
    \* progress, tasks that used the port after Close, bytes
    \* as read since the last silence gap, and time the last response with a
    \* correct checksum was taken over
    owed, due, inflight, closedIo, sinceGap, lastValid

handleVars == << port, onceDone, stop, cmdChannel, chanMade, setFrequency,
                 outputFrequency, outputRpm, lastReceived, pollIntervalMs,
                 rpmToHertz, commandQueue, hash16 >>
procVars == << procPc, procCmd, procFrame, procWake, nProcessor >>
parsVars == << parsPc, modbusRtu, lastRead, readAt, nParser >>
reqVars == << reqPc, reqWake, nRequester >>
apiVars == << call, openRet >>
testVars == << testPc, testMsg, testSigned >>
envVars == << now, clockOn, budget, pollsLeft, wire, pending, crashed, wroteAt,
             testVars >>
histVars == << owed, due, inflight, closedIo, sinceGap, lastValid >>
vars == << handleVars, procVars, parsVars, reqVars, apiVars, envVars, histVars >>

\* a GCode call that is not running
IdleCall == [pc |-> "idle", toks |-> <<>>, ok |-> TRUE, cmds |-> <<>>, got |-> <<>>,
             free0 |-> 0, deq |-> FALSE, other |-> FALSE]

\* NewVfd(): &HyInverter{}
InitHandle ==
    /\ port = "nil" /\ onceDone = FALSE /\ stop = FALSE
    /\ cmdChannel = <<>> /\ chanMade = 0
    /\ setFrequency = 0 /\ outputFrequency = 0 /\ outputRpm = 0
    /\ lastReceived = ZeroTime /\ pollIntervalMs = 0 /\ rpmToHertz = 0
    /\ commandQueue = 0 /\ hash16 = 0

InitRest ==
    /\ procPc = "off" /\ procCmd = <<>> /\ procFrame = <<>> /\ procWake = 0
    /\ nProcessor = 0
    /\ parsPc = "off" /\ modbusRtu = <<>> /\ lastRead = 0 /\ readAt = 0
    /\ nParser = 0
    /\ reqPc = "off" /\ reqWake = 0 /\ nRequester = 0
    /\ call = [c \in Callers |-> IdleCall]
    /\ openRet = "none"
    /\ now = 0 /\ wire = <<>> /\ pending = <<>> /\ crashed = FALSE
    /\ wroteAt = ZeroTime
    /\ testSigned = <<>>
    /\ owed = <<>> /\ due = <<>> /\ inflight = 0 /\ closedIo = {}
    /\ sinceGap = <<>> /\ lastValid = ZeroTime

\* the clock is not followed: a sleep may end, and a silence gap may have
\* passed, at any step
Init == InitHandle /\ InitRest /\ clockOn = FALSE /\ budget = MaxTokens
        /\ pollsLeft = MaxPolls /\ testPc = "off" /\ testMsg = <<>>

(***************************************************************************)
(* Time.                                                                   *)
(***************************************************************************)
\* a Sleep that returns at once
SleepUntilNow(d) == now

\* the time at which time.Sleep(d ms), called now, returns
SleepUntil(d) == IF clockOn THEN now + d ELSE now

\* read.Sub(lastRead).Seconds() > 0.05, for a Read that returns now
GapExceeded(last) == now - last > GapMs

\* the outcomes of the gap test
GapChoices(last) == IF clockOn THEN {GapExceeded(last)} ELSE BOOLEAN

\* time.Now().Sub(t): the zero time is centuries back, Sub saturates
SinceFar == 2000000000
Since(t) == IF t = ZeroTime THEN SinceFar ELSE now - t

(***************************************************************************)
(* Open and Close.                                                         *)
(***************************************************************************)
\* an Open without the sync.Once
OnceAlways(done) == TRUE

\* o.once.Do(f) runs f
OnceRuns(done) == ~done

\* Open(portName, maxRpm, rpmToHertz, rpmPollInterval); bound tells whether
\* serial.Open succeeds
Open(bound, cfg) ==
    /\ ~crashed
    /\ IF OnceRuns(onceDone)
       THEN /\ onceDone' = TRUE
            /\ rpmToHertz' = cfg.m
            /\ pollIntervalMs' = cfg.poll
            /\ port' = IF bound THEN "open" ELSE "nil"
            /\ hash16' = CrcInit
            /\ stop' = FALSE
            /\ cmdChannel' = <<>>
            /\ chanMade' = chanMade + 1
            /\ procPc' = "loop" /\ nProcessor' = nProcessor + 1
            /\ parsPc' = "start" /\ nParser' = nParser + 1
            /\ reqPc' = "loop" /\ nRequester' = nRequester + 1
            /\ openRet' = IF bound THEN "nil" ELSE "error"
            /\ call' = [d \in Callers |->
                          IF call[d].pc # "idle"
                          THEN [call[d] EXCEPT !.other = TRUE] ELSE call[d]]
            /\ UNCHANGED << setFrequency, outputFrequency, outputRpm, lastReceived,
                            commandQueue >>
       ELSE /\ openRet' = "nil"
            /\ UNCHANGED << handleVars, procPc, nProcessor, parsPc, nParser, reqPc,
                            nRequester, call >>
    /\ UNCHANGED << procCmd, procFrame, procWake, modbusRtu, lastRead, readAt,
                    reqWake, envVars, histVars >>

\* Close(): o.stop = true; o.port.Close()
Close ==
    /\ ~crashed
    /\ stop' = TRUE
    /\ IF port = "nil"
       THEN crashed' = TRUE /\ port' = port
       ELSE crashed' = crashed /\ port' = "closed"
    /\ UNCHANGED << onceDone, cmdChannel, chanMade, setFrequency, outputFrequency,
                    outputRpm, lastReceived, pollIntervalMs, rpmToHertz,
                    commandQueue, hash16, procVars, parsVars, reqVars, apiVars,
                    now, clockOn, wroteAt, testVars, budget, pollsLeft, wire, pending, histVars >>

(***************************************************************************)
(* GCode.                                                                  *)
(***************************************************************************)
\* free slots of the channel (a nil channel accepts nothing)
FreeSlots == IF chanMade = 0 THEN 0 ELSE QueueCap - Len(cmdChannel)

\* the free slots of the channel, counted up to the n a call asks for
Room(n) == IF FreeSlots < n THEN FreeSlots ELSE n

\* a channel made with one slot too many
SendReadyOffByOne == chanMade > 0 /\ Len(cmdChannel) <= QueueCap

\* the non-blocking send `case o.cmdChannel <- subCmd` is ready
SendReady == chanMade > 0 /\ Len(cmdChannel) < QueueCap

\* a channel that hands the newest element out first
ChanSendFront(ch, tok) == <<tok>> \o ch

\* o.cmdChannel <- subCmd
ChanSend(ch, tok) == Append(ch, tok)

\* a counter whose decrements are lost
AddInt32Lost(v, delta) == IF delta < 0 THEN v ELSE v + delta

\* atomic.AddInt32(&o.commandQueue, delta)
AddInt32(v, delta) == v + delta

\* lines 105-108: preprocess cmd and add len(subCmds) to the counter
GCodeBegin(c, cmd) ==
    LET subCmds == Preprocessed[cmd]
    IN  /\ call[c].pc = "idle"
        /\ commandQueue' = AddInt32(commandQueue, Len(subCmds))
        /\ call' = [call EXCEPT ![c] =
                       [pc |-> IF subCmds = <<>> THEN "done" ELSE "send",
                        toks |-> subCmds, ok |-> TRUE, cmds |-> subCmds,
                        got |-> <<>>, free0 |-> Room(Len(subCmds)), deq |-> FALSE,
                        other |-> FALSE]]

\* a call by the API user
GCodeCall(cmd) ==
    /\ ~crashed
    /\ Len(Preprocessed[cmd]) <= budget
    /\ budget' = budget - Len(Preprocessed[cmd])
    /\ GCodeBegin("user", cmd)
    /\ UNCHANGED << port, onceDone, stop, cmdChannel, chanMade, setFrequency,
                    outputFrequency, outputRpm, lastReceived, pollIntervalMs,
                    rpmToHertz, hash16, procVars, parsVars, reqVars, openRet,
                    now, clockOn, wroteAt, testVars, pollsLeft, wire, pending, crashed, histVars >>

\* lines 110-112: one iteration of the loop whose send succeeds
GCodeSend(c) ==
    /\ ~crashed
    /\ call[c].pc = "send"
    /\ SendReady
    /\ LET tok  == Head(call[c].toks)
           rest == Tail(call[c].toks)
       IN  /\ cmdChannel' = ChanSend(cmdChannel, tok)
           /\ owed' = Append(owed, tok)
           /\ call' = [d \in Callers |->
                         IF d = c
                         THEN [call[c] EXCEPT !.toks = rest,
                                              !.got = Append(call[c].got, tok),
                                              !.pc = IF rest = <<>> THEN "done" ELSE "send"]
                         ELSE IF call[d].pc # "idle"
                              THEN [call[d] EXCEPT !.other = TRUE]
                              ELSE call[d]]
    /\ closedIo' = IF c = "poller" /\ port = "closed"
                   THEN closedIo \cup {"poller"} ELSE closedIo
    /\ UNCHANGED << port, onceDone, stop, chanMade, setFrequency, outputFrequency,
                    outputRpm, lastReceived, pollIntervalMs, rpmToHertz,
                    commandQueue, hash16, procVars, parsVars, reqVars,
                    openRet, envVars, due, inflight, sinceGap, lastValid >>

\* lines 113-114: the send is not ready, the default case is taken
GCodeFull(c) ==
    /\ ~crashed
    /\ call[c].pc = "send"
    /\ ~SendReady
    /\ call' = [call EXCEPT ![c].pc = "drop", ![c].ok = FALSE]
    /\ UNCHANGED << handleVars, procVars, parsVars, reqVars, openRet, envVars, histVars >>

\* line 115: the dropped token is taken off the counter
GCodeDrop(c) ==
    /\ ~crashed
    /\ call[c].pc = "drop"
    /\ commandQueue' = AddInt32(commandQueue, -1)
    /\ LET rest == Tail(call[c].toks)
       IN  call' = [call EXCEPT ![c].toks = rest,
                                ![c].pc = IF rest = <<>> THEN "done" ELSE "send"]
    /\ UNCHANGED << port, onceDone, stop, cmdChannel, chanMade, setFrequency,
                    outputFrequency, outputRpm, lastReceived, pollIntervalMs,
                    rpmToHertz, hash16, procVars, parsVars, reqVars,
                    openRet, envVars, histVars >>

\* line 119: return ok
GCodeReturn(c) ==
    /\ ~crashed
    /\ call[c].pc = "done"
    /\ call' = [call EXCEPT ![c] = IdleCall]
    /\ UNCHANGED << handleVars, procVars, parsVars, reqVars, openRet, envVars,
                    histVars >>

(***************************************************************************)
(* processor: the consumer of the channel and only writer of the port.     *)
(***************************************************************************)
\* a stop branch that knows "stop" in place of "end"
StopTokensStop == { <<"s", "t", "o", "p">>, <<"m", "0">>, <<"m", "1">>,
                    <<"m", "3", "0">>, <<"m", "6", "0">>, <<"m", "5">>,
                    <<"m", "0", "5">> }

StopTokens == { <<"e", "n", "d">>, <<"m", "0">>, <<"m", "1">>, <<"m", "3", "0">>,
                <<"m", "6", "0">>, <<"m", "5">>, <<"m", "0", "5">> }
\* a forward branch that forgets the spelling with the leading zero
ForwardTokensShort == { <<"m", "3">> }

ForwardTokens == { <<"m", "3">>, <<"m", "0", "3">> }
BackwardTokens == { <<"m", "4">>, <<"m", "0", "4">> }
QueryToken == << "?" >>

\* cmd = strings.TrimSpace(strings.ToLower(cmd))
Normalize(cmd) == TrimSpace(ToLower(cmd))

\* uint16(float32(outputRpm) * handle.rpmToHertz)
InverterFrequency(rpm, m) == Uint16Conv(F32MulTrunc(rpm, m))

\* a dispatcher that skips every token
DispatchNone(cmd, m) == {[payload |-> <<>>, freq |-> -1]}

\* the if-chain of processor on the normalized cmd: the possible outcomes,
\* each the payload to sign and write (<<>>: nothing is written) and the new
\* setFrequency (-1: not assigned)
Dispatch(cmd, m) ==
    IF cmd \in StopTokens THEN {[payload |-> <<1, 3, 1, 8>>, freq |-> -1]}
    ELSE IF cmd \in ForwardTokens THEN {[payload |-> <<1, 3, 1, 1>>, freq |-> -1]}
    ELSE IF cmd \in BackwardTokens THEN {[payload |-> <<1, 3, 1, 17>>, freq |-> -1]}
    ELSE IF cmd # <<>> /\ Head(cmd) = "s"
         THEN LET rpm == ParseUint16(Tail(cmd))
              IN  IF rpm >= 0
                  THEN {[payload |-> <<1, 5, 2>> \o PutUint16(f), freq |-> f] :
                           f \in InverterFrequency(rpm, m)}
                  ELSE {[payload |-> <<>>, freq |-> -1]}
    ELSE IF cmd = QueryToken THEN {[payload |-> <<1, 4, 3, 1, 0, 0>>, freq |-> -1]}
    ELSE {[payload |-> <<>>, freq |-> -1]}

\* cmd := <-commands on the channel ch: <<cmd, channel afterwards>>
ChanRecv(ch) == <<Head(ch), Tail(ch)>>

\* line 123: for !handle.stop, at the start, after a token that wrote
\* nothing, or when time.Sleep returns
ProcLoop ==
    /\ ~crashed
    /\ \/ procPc = "loop"
       \/ procPc = "sleep" /\ now >= procWake
    /\ procPc' = IF stop THEN "exit" ELSE "recv"
    /\ UNCHANGED << handleVars, procCmd, procFrame, procWake, nProcessor, parsVars,
                    reqVars, apiVars, envVars, histVars >>

\* line 124: cmd := <-commands (blocks while the channel is empty)
ProcRecv ==
    /\ ~crashed
    /\ procPc = "recv"
    /\ cmdChannel # <<>>
    /\ procCmd' = ChanRecv(cmdChannel)[1]
    /\ cmdChannel' = ChanRecv(cmdChannel)[2]
    /\ procPc' = "dec"
    /\ owed' = Tail(owed)
    /\ due' = <<Head(owed)>>
    /\ wire' = <<>>
    /\ call' = [d \in Callers |->
                  IF call[d].pc # "idle" THEN [call[d] EXCEPT !.deq = TRUE] ELSE call[d]]
    /\ UNCHANGED << port, onceDone, stop, chanMade, setFrequency, outputFrequency,
                    outputRpm, lastReceived, pollIntervalMs, rpmToHertz,
                    commandQueue, hash16, procFrame, procWake, nProcessor, parsVars,
                    reqVars, openRet, now, clockOn, wroteAt, testVars, budget, pollsLeft, pending, crashed, inflight,
                    closedIo, sinceGap, lastValid >>

\* line 125: atomic.AddInt32(&handle.commandQueue, -1)
ProcDec ==
    /\ ~crashed
    /\ procPc = "dec"
    /\ commandQueue' = AddInt32(commandQueue, -1)
    /\ procPc' = "dispatch"
    /\ UNCHANGED << port, onceDone, stop, cmdChannel, chanMade, setFrequency,
                    outputFrequency, outputRpm, lastReceived, pollIntervalMs,
                    rpmToHertz, hash16, procCmd, procFrame, procWake, nProcessor,
                    parsVars, reqVars, apiVars, envVars, histVars >>

\* lines 126-157 up to the call of Write: normalize, choose the branch, store
\* setFrequency, sign the payload
ProcDispatch ==
    /\ ~crashed
    /\ procPc = "dispatch"
    /\ \E o \in Dispatch(Normalize(procCmd), rpmToHertz) :
          IF o.payload = <<>>
          THEN /\ procPc' = "loop"
               /\ UNCHANGED << setFrequency, hash16, procFrame >>
          ELSE /\ procPc' = "write"
               /\ setFrequency' = IF o.freq >= 0 THEN o.freq ELSE setFrequency
               /\ hash16' = Crc16(o.payload)
               /\ procFrame' = signMessage(o.payload)
    /\ UNCHANGED << port, onceDone, stop, cmdChannel, chanMade, outputFrequency,
                    outputRpm, lastReceived, pollIntervalMs, rpmToHertz,
                    commandQueue, procCmd, procWake, nProcessor, parsVars, reqVars,
                    apiVars, envVars, histVars >>

\* handle.port.Write(frame) is called
ProcWrite ==
    /\ ~crashed
    /\ procPc = "write"
    /\ IF port = "nil"
       THEN /\ crashed' = TRUE
            /\ UNCHANGED << procPc, wire, inflight, closedIo >>
       ELSE /\ procPc' = "writing"
            /\ inflight' = inflight + 1
            /\ wire' = IF port = "open" THEN Append(wire, procFrame) ELSE wire
            /\ closedIo' = IF port = "closed"
                           THEN closedIo \cup {"processor"} ELSE closedIo
            /\ crashed' = crashed
    /\ UNCHANGED << handleVars, procCmd, procFrame, procWake, nProcessor, parsVars,
                    reqVars, apiVars, now, clockOn, wroteAt, testVars, budget, pollsLeft, pending, owed, due,
                    sinceGap, lastValid >>

\* Write returns; time.Sleep(time.Millisecond * 110) begins
ProcWritten ==
    /\ ~crashed
    /\ procPc = "writing"
    /\ inflight' = inflight - 1
    /\ procPc' = "sleep"
    /\ procWake' = SleepUntil(QuietMs)
    /\ wroteAt' = IF clockOn THEN now ELSE wroteAt
    /\ UNCHANGED << handleVars, procCmd, procFrame, nProcessor, parsVars, reqVars,
                    apiVars, now, clockOn, budget, pollsLeft, wire, pending,
                    crashed, testVars, owed, due, closedIo, sinceGap, lastValid >>

(***************************************************************************)
(* outFrequencyRequester: submits "?" every pollInterval milliseconds.     *)
(***************************************************************************)
\* line 162: for !handle.stop, then time.Sleep begins
ReqLoop ==
    /\ ~crashed
    /\ \/ reqPc = "loop"
       \/ reqPc = "gcode" /\ call["poller"].pc = "idle"
    /\ \/ /\ stop
          /\ reqPc' = "exit"
          /\ reqWake' = reqWake
       \/ /\ ~stop
          /\ pollsLeft > 0
          /\ reqPc' = "sleep"
          /\ reqWake' = SleepUntil(pollIntervalMs)
    /\ UNCHANGED << handleVars, procVars, parsVars, nRequester, apiVars,
                    envVars, histVars >>

\* lines 163-164: time.Sleep returns, handle.GCode("?") is called
ReqWake ==
    /\ ~crashed
    /\ reqPc = "sleep"
    /\ now >= reqWake
    /\ reqPc' = "gcode"
    /\ pollsLeft > 0
    /\ pollsLeft' = pollsLeft - 1
    /\ GCodeBegin("poller", TextQuery)
    /\ UNCHANGED << port, onceDone, stop, cmdChannel, chanMade, setFrequency,
                    outputFrequency, outputRpm, lastReceived, pollIntervalMs,
                    rpmToHertz, hash16, procVars, parsVars, reqWake, nRequester,
                    openRet, now, clockOn, wroteAt, testVars, budget, wire, pending, crashed,
                    histVars >>

(***************************************************************************)
(* parser: the reader of the port; parseModbusRTU.                         *)
(***************************************************************************)
\* msg[0] == 0x01 && msg[1] == 0x04 && msg[2] == 0x03 && msg[3] == 0x01
HeaderOk(msg) == msg[1] = 1 /\ msg[2] = 4 /\ msg[3] = 3 /\ msg[4] = 1

\* the bytes of msg once handle.signMessage(msg[:6]) has returned: msg[:6]
\* has the capacity of msg (at least 8), so the append of Sum stores the two
\* bytes of the sum in place, in msg[6] and msg[7]
MsgAfterSign(msg) == signMessage(SubSeq(msg, 1, 6))

\* signTest[6] == msg[6] && signTest[7] == msg[7], both read after the call
SignatureOk(msg) ==
    LET signTest == signMessage(SubSeq(msg, 1, 6))
        after    == MsgAfterSign(msg)
    IN  signTest[7] = after[7] /\ signTest[8] = after[8]

\* parseModbusRTU calls signMessage on msg
ParseSigns(msg) == Len(msg) = FrameLen /\ HeaderOk(msg)

\* parseModbusRTU takes msg over into the telemetry fields
ParseAccepts(msg) == ParseSigns(msg) /\ SignatureOk(msg)

\* a response of the drive as the protocol defines it: 8 bytes, the header,
\* and a CRC16 whose residue over the whole frame is zero
ValidFrame(f) == Len(f) = FrameLen /\ HeaderOk(f) /\ Crc16(f) = 0

\* parser starts: modbusRtu := make([]byte, 0); lastRead := time.Now()
ParsStart ==
    /\ ~crashed
    /\ parsPc = "start"
    /\ modbusRtu' = <<>>
    /\ lastRead' = now
    /\ sinceGap' = <<>>
    /\ parsPc' = "loop"
    /\ UNCHANGED << handleVars, procVars, readAt, nParser, reqVars, apiVars,
                    envVars, owed, due, inflight, closedIo, lastValid >>

\* line 172: for !handle.stop
ParsLoop ==
    /\ ~crashed
    /\ parsPc = "loop"
    /\ parsPc' = IF stop THEN "exit" ELSE "call"
    /\ UNCHANGED << handleVars, procVars, modbusRtu, lastRead, readAt, nParser,
                    reqVars, apiVars, envVars, histVars >>

\* line 173: handle.port.Read(rxBuf) is called
ParsCall ==
    /\ ~crashed
    /\ parsPc = "call"
    /\ IF port = "nil"
       THEN crashed' = TRUE /\ UNCHANGED << parsPc, closedIo >>
       ELSE /\ parsPc' = "inread"
            /\ closedIo' = IF port = "closed"
                           THEN closedIo \cup {"parser"} ELSE closedIo
            /\ crashed' = crashed
    /\ UNCHANGED << handleVars, procVars, modbusRtu, lastRead, readAt, nParser,
                    reqVars, apiVars, now, clockOn, wroteAt, testVars, budget, pollsLeft, wire, pending, owed, due, inflight, sinceGap, lastValid >>

\* lines 173-182 for a Read that returns an error and no bytes
ParsReadErr ==
    /\ ~crashed
    /\ parsPc = "inread"
    /\ \E gap \in GapChoices(lastRead) :
          /\ modbusRtu' = IF gap THEN <<>> ELSE modbusRtu
          /\ sinceGap' = IF gap THEN <<>> ELSE sinceGap
    /\ lastRead' = now
    /\ parsPc' = "loop"
    /\ UNCHANGED << handleVars, procVars, readAt, nParser, reqVars, apiVars,
                    envVars, owed, due, inflight, closedIo, lastValid >>

\* lines 173-182 and parseModbusRTU up to line 195 for a Read that returns
\* the next k bytes of the line
ParsReadData(k) ==
    /\ ~crashed
    /\ parsPc = "inread"
    /\ port = "open"
    /\ k >= 1 /\ k <= RxBufLen /\ k <= Len(pending)
    /\ pending' = SubSeq(pending, k + 1, Len(pending))
    /\ \E gap \in GapChoices(lastRead) :
          LET chunk == SubSeq(pending, 1, k)
              msg   == (IF gap THEN <<>> ELSE modbusRtu) \o chunk
          IN  /\ Len(msg) <= MaxBuf
              /\ sinceGap' = (IF gap THEN <<>> ELSE sinceGap) \o chunk
              /\ modbusRtu' = IF ParseSigns(msg) THEN MsgAfterSign(msg) ELSE msg
              /\ hash16' = IF ParseSigns(msg) THEN Crc16(SubSeq(msg, 1, 6)) ELSE hash16
              /\ IF ParseAccepts(msg)
                 THEN parsPc' = "wrFreq" /\ lastRead' = lastRead
                 ELSE parsPc' = "loop" /\ lastRead' = now
    /\ readAt' = now
    /\ UNCHANGED << port, onceDone, stop, cmdChannel, chanMade, setFrequency,
                    outputFrequency, outputRpm, lastReceived, pollIntervalMs,
                    rpmToHertz, commandQueue, procVars, nParser, reqVars, apiVars,
                    now, clockOn, wroteAt, testVars, budget, pollsLeft, wire, crashed, owed, due, inflight,
                    closedIo, lastValid >>

\* line 196: handle.outputFrequency = binary.BigEndian.Uint16(fBytes)
ParsWrFreq ==
    /\ ~crashed
    /\ parsPc = "wrFreq"
    /\ outputFrequency' = Uint16(<<modbusRtu[5], modbusRtu[6]>>)
    /\ parsPc' = "wrRpm"
    /\ UNCHANGED << port, onceDone, stop, cmdChannel, chanMade, setFrequency,
                    outputRpm, lastReceived, pollIntervalMs, rpmToHertz,
                    commandQueue, hash16, procVars, modbusRtu, lastRead, readAt,
                    nParser, reqVars, apiVars, envVars, histVars >>

\* uint16(float32(handle.outputFrequency) / handle.rpmToHertz)
RpmOfFrequency(f, m) == Uint16Conv(F32DivTrunc(f, m))

\* line 197: handle.outputRpm = ...
ParsWrRpm ==
    /\ ~crashed
    /\ parsPc = "wrRpm"
    /\ \E r \in RpmOfFrequency(outputFrequency, rpmToHertz) : outputRpm' = r
    /\ parsPc' = "wrLast"
    /\ UNCHANGED << port, onceDone, stop, cmdChannel, chanMade, setFrequency,
                    outputFrequency, lastReceived, pollIntervalMs, rpmToHertz,
                    commandQueue, hash16, procVars, modbusRtu, lastRead, readAt,
                    nParser, reqVars, apiVars, envVars, histVars >>

\* line 198: handle.lastReceived = time.Now(); line 182: lastRead = read
ParsWrLast ==
    /\ ~crashed
    /\ parsPc = "wrLast"
    /\ lastReceived' = now
    /\ lastRead' = readAt
    /\ lastValid' = IF ValidFrame(sinceGap) THEN now ELSE lastValid
    /\ parsPc' = "loop"
    /\ UNCHANGED << port, onceDone, stop, cmdChannel, chanMade, setFrequency,
                    outputFrequency, outputRpm, pollIntervalMs, rpmToHertz,
                    commandQueue, hash16, procVars, modbusRtu, readAt, nParser,
                    reqVars, apiVars, envVars, owed, due, inflight,
                    closedIo, sinceGap >>

(***************************************************************************)
(* Online, the clock and the drive.                                        *)
(***************************************************************************)
\* rxDiff.Seconds() < 2*o.pollIntervalSec
Online == Since(lastReceived) < 2 * pollIntervalMs

\* the steps in which the clock advances, in milliseconds
TickSteps == {25}

Tick(d) ==
    /\ clockOn
    /\ now + d <= MaxNow
    /\ now' = now + d
    /\ UNCHANGED << handleVars, procVars, parsVars, reqVars, apiVars, clockOn, wroteAt, testVars, budget, pollsLeft,
                    wire, pending, crashed, histVars >>

\* responses of the drive: frequency 3472 with its CRC16, and frequency 100
\* with one bit of the checksum flipped
FrameGood == signMessage(<<1, 4, 3, 1, 13, 144>>)
FrameFlipped ==
    LET f == signMessage(<<1, 4, 3, 1, 0, 100>>) IN [f EXCEPT ![8] = Xor(f[8], 1)]
DriveFrames == {FrameGood, FrameFlipped}

\* the sizes in which a Read hands the bytes of the line over
ChunkSizes == {4, 8}

\* the drive puts a frame on the line
DriveSend(f) ==
    /\ ~crashed
    /\ port = "open"
    /\ pending = <<>>
    /\ pending' = f
    /\ UNCHANGED << handleVars, procVars, parsVars, reqVars, apiVars, now, clockOn, wroteAt, testVars, budget, pollsLeft,
                    wire, crashed, histVars >>

(***************************************************************************)
(* TestModbusCrc16: a fresh handle, initCRC, one call of signMessage.      *)
(***************************************************************************)
\* the bytes the payloads are made of
PayloadBytes == {0, 1, 3, 8, 255}

RECURSIVE SeqsUpTo(_, _)
SeqsUpTo(S, n) ==
    IF n = 0 THEN {<<>>}
    ELSE LET shorter == SeqsUpTo(S, n - 1)
         IN  shorter \cup {Append(q, b) : q \in {r \in shorter : Len(r) = n - 1}, b \in S}

Payloads == SeqsUpTo(PayloadBytes, MaxPayload)

\* hy := &HyInverter{}
TestStart ==
    /\ testPc = "new"
    /\ testPc' = "init"
    /\ UNCHANGED << handleVars, procVars, parsVars, reqVars, apiVars, now, clockOn, wroteAt,
                    budget, pollsLeft, wire, pending, crashed, testMsg, testSigned,
                    histVars >>

\* hy.initCRC()
TestInitCRC ==
    /\ testPc = "init"
    /\ hash16' = CrcInit
    /\ testPc' = "sign"
    /\ UNCHANGED << port, onceDone, stop, cmdChannel, chanMade, setFrequency,
                    outputFrequency, outputRpm, lastReceived, pollIntervalMs,
                    rpmToHertz, commandQueue, procVars, parsVars, reqVars, apiVars,
                    now, clockOn, wroteAt, budget, pollsLeft, wire, pending, crashed, testMsg,
                    testSigned, histVars >>

\* msg := hy.signMessage(payload)
TestSign ==
    /\ testPc = "sign"
    /\ hash16' = Crc16(testMsg)
    /\ testSigned' = signMessage(testMsg)
    /\ testPc' = "done"
    /\ UNCHANGED << port, onceDone, stop, cmdChannel, chanMade, setFrequency,
                    outputFrequency, outputRpm, lastReceived, pollIntervalMs,
                    rpmToHertz, commandQueue, procVars, parsVars, reqVars, apiVars,
                    now, clockOn, wroteAt, budget, pollsLeft, wire, pending, crashed, testMsg,
                    histVars >>

(***************************************************************************)
(* Specifications.                                                         *)
(***************************************************************************)
\* the command path: the API user, outFrequencyRequester, the channel and
\* processor on a port that is open; the drive is silent, so that parser
\* only blocks in Read; the clock is not followed
Next ==
    \/ \E cfg \in Configs : Open(TRUE, cfg)
    \/ GCodeCall(TextLong)
    \/ \E c \in Callers : GCodeSend(c)
    \/ \E c \in Callers : GCodeFull(c)
    \/ \E c \in Callers : GCodeDrop(c)
    \/ \E c \in Callers : GCodeReturn(c)
    \/ ProcLoop
    \/ ProcRecv
    \/ ProcDec
    \/ ProcDispatch
    \/ ProcWrite
    \/ ProcWritten
    \/ ReqLoop
    \/ ReqWake

Spec == Init /\ [][Next]_vars

\* the life cycle: Open with a port that binds or not, Close, the three
\* goroutines and short commands; the clock is not followed
NextLife ==
    \/ \E b \in BOOLEAN, cfg \in Configs : Open(b, cfg)
    \/ Close
    \/ GCodeCall(TextRun)
    \/ \E c \in Callers : GCodeSend(c)
    \/ \E c \in Callers : GCodeFull(c)
    \/ \E c \in Callers : GCodeDrop(c)
    \/ \E c \in Callers : GCodeReturn(c)
    \/ ProcLoop
    \/ ProcRecv
    \/ ProcDec
    \/ ProcDispatch
    \/ ProcWrite
    \/ ProcWritten
    \/ ReqLoop
    \/ ReqWake
    \/ ParsStart
    \/ ParsLoop
    \/ ParsCall
    \/ ParsReadErr

InitLife == InitHandle /\ InitRest /\ clockOn = FALSE
            /\ budget = MaxLifeTokens /\ pollsLeft = MaxPolls /\ testPc = "off" /\ testMsg = <<>>

SpecLife == InitLife /\ [][NextLife]_vars

\* shutdown: Open, Close and the three goroutines, with the "?" of
\* outFrequencyRequester as the only commands; the clock is not followed
InitShutdown == /\ InitHandle /\ InitRest /\ clockOn = FALSE /\ budget = 0
                /\ pollsLeft = MaxPolls /\ testPc = "off" /\ testMsg = <<>>

\* the steps of each goroutine
ProcessorStep ==
    ProcLoop \/ ProcRecv \/ ProcDec \/ ProcDispatch \/ ProcWrite \/ ProcWritten
ParserStep == ParsStart \/ ParsLoop \/ ParsCall \/ ParsReadErr
RequesterStep == ReqLoop \/ ReqWake \/ GCodeSend("poller") \/ GCodeReturn("poller")

NextShutdown ==
    \/ \E cfg \in Configs : Open(TRUE, cfg)
    \/ Close
    \/ ProcessorStep
    \/ ParserStep
    \/ RequesterStep

\* the scheduler of Go runs every goroutine that can take a step, and a
\* Read on the port returns in the end; the API user is free to call Open
\* and Close or not
FairShutdown ==
    /\ WF_vars(ProcessorStep)
    /\ WF_vars(ParserStep)
    /\ WF_vars(RequesterStep)

SpecShutdown == InitShutdown /\ [][NextShutdown]_vars /\ FairShutdown

\* the telemetry path against the clock: parser, the drive and Online
InitTelemetry == InitHandle /\ InitRest /\ clockOn = TRUE /\ budget = 0
                 /\ pollsLeft = 0 /\ testPc = "off" /\ testMsg = <<>>

NextTelemetry ==
    \/ \E cfg \in Configs : Open(TRUE, cfg)
    \/ \E d \in TickSteps : Tick(d)
    \/ \E f \in DriveFrames : DriveSend(f)
    \/ ParsStart
    \/ ParsLoop
    \/ ParsCall
    \/ ParsReadErr
    \/ \E k \in ChunkSizes : ParsReadData(k)
    \/ ParsWrFreq
    \/ ParsWrRpm
    \/ ParsWrLast

SpecTelemetry == InitTelemetry /\ [][NextTelemetry]_vars

\* the token path: calls of GCode with one sub-command each, the channel
\* and processor on a port that is open; the clock is not followed
InitTokens == /\ InitHandle /\ InitRest /\ clockOn = FALSE /\ budget = MaxSingles
              /\ pollsLeft = 0 /\ testPc = "off" /\ testMsg = <<>>

NextTokens ==
    \/ \E cfg \in Configs : Open(TRUE, cfg)
    \/ \E cmd \in SingleTexts : GCodeCall(cmd)
    \/ GCodeSend("user")
    \/ GCodeFull("user")
    \/ GCodeDrop("user")
    \/ GCodeReturn("user")
    \/ ProcLoop
    \/ ProcRecv
    \/ ProcDec
    \/ ProcDispatch
    \/ ProcWrite
    \/ ProcWritten

SpecTokens == InitTokens /\ [][NextTokens]_vars

(***************************************************************************)
(* signMessage call by call: processor and parser share o.hash16 without a *)
(* lock, so the three calls of one signMessage (Reset, Write, Sum) may be  *)
(* interleaved with those of the other goroutine.                          *)
(***************************************************************************)
\* lines 126-145 up to the call of signMessage: the payload is built
ProcBuild ==
    /\ ~crashed
    /\ procPc = "dispatch"
    /\ \E o \in Dispatch(Normalize(procCmd), rpmToHertz) :
          IF o.payload = <<>>
          THEN /\ procPc' = "loop"
               /\ UNCHANGED << setFrequency, procFrame >>
          ELSE /\ procPc' = "hReset"
               /\ setFrequency' = IF o.freq >= 0 THEN o.freq ELSE setFrequency
               /\ procFrame' = o.payload
    /\ UNCHANGED << port, onceDone, stop, cmdChannel, chanMade, outputFrequency,
                    outputRpm, lastReceived, pollIntervalMs, rpmToHertz,
                    commandQueue, hash16, procCmd, procWake, nProcessor, parsVars,
                    reqVars, apiVars, envVars, histVars >>

\* line 253 in processor: o.hash16.Reset()
ProcHashReset ==
    /\ ~crashed
    /\ procPc = "hReset"
    /\ hash16' = CrcInit
    /\ procPc' = "hWrite"
    /\ UNCHANGED << port, onceDone, stop, cmdChannel, chanMade, setFrequency,
                    outputFrequency, outputRpm, lastReceived, pollIntervalMs,
                    rpmToHertz, commandQueue, procCmd, procFrame, procWake,
                    nProcessor, parsVars, reqVars, apiVars, envVars, histVars >>

\* line 254 in processor: o.hash16.Write(data)
ProcHashWrite ==
    /\ ~crashed
    /\ procPc = "hWrite"
    /\ hash16' = CrcWrite(hash16, procFrame)
    /\ procPc' = "hSum"
    /\ UNCHANGED << port, onceDone, stop, cmdChannel, chanMade, setFrequency,
                    outputFrequency, outputRpm, lastReceived, pollIntervalMs,
                    rpmToHertz, commandQueue, procCmd, procFrame, procWake,
                    nProcessor, parsVars, reqVars, apiVars, envVars, histVars >>

\* line 255 in processor: return o.hash16.Sum(data)
ProcHashSum ==
    /\ ~crashed
    /\ procPc = "hSum"
    /\ procFrame' = HashSum(hash16, procFrame)
    /\ procPc' = "write"
    /\ UNCHANGED << handleVars, procCmd, procWake, nProcessor, parsVars, reqVars,
                    apiVars, envVars, histVars >>

\* lines 173-181 and parseModbusRTU up to the call of signMessage, for a
\* Read that returns the next k bytes of the line
ParsReadMsg(k) ==
    /\ ~crashed
    /\ parsPc = "inread"
    /\ port = "open"
    /\ k >= 1 /\ k <= RxBufLen /\ k <= Len(pending)
    /\ pending' = SubSeq(pending, k + 1, Len(pending))
    /\ \E gap \in GapChoices(lastRead) :
          LET chunk == SubSeq(pending, 1, k)
              msg   == (IF gap THEN <<>> ELSE modbusRtu) \o chunk
          IN  /\ Len(msg) <= MaxBuf
              /\ sinceGap' = (IF gap THEN <<>> ELSE sinceGap) \o chunk
              /\ modbusRtu' = msg
              /\ IF ParseSigns(msg)
                 THEN parsPc' = "hReset" /\ lastRead' = lastRead
                 ELSE parsPc' = "loop" /\ lastRead' = now
    /\ readAt' = now
    /\ UNCHANGED << handleVars, procVars, nParser, reqVars, apiVars, now, clockOn, wroteAt,
                    testVars, budget, pollsLeft, wire, crashed, owed, due,
                    inflight, closedIo, lastValid >>

\* line 253 in parser: o.hash16.Reset()
ParsHashReset ==
    /\ ~crashed
    /\ parsPc = "hReset"
    /\ hash16' = CrcInit
    /\ parsPc' = "hWrite"
    /\ UNCHANGED << port, onceDone, stop, cmdChannel, chanMade, setFrequency,
                    outputFrequency, outputRpm, lastReceived, pollIntervalMs,
                    rpmToHertz, commandQueue, procVars, modbusRtu, lastRead,
                    readAt, nParser, reqVars, apiVars, envVars, histVars >>

\* line 254 in parser: o.hash16.Write(msg[:6])
ParsHashWrite ==
    /\ ~crashed
    /\ parsPc = "hWrite"
    /\ hash16' = CrcWrite(hash16, SubSeq(modbusRtu, 1, 6))
    /\ parsPc' = "hSum"
    /\ UNCHANGED << port, onceDone, stop, cmdChannel, chanMade, setFrequency,
                    outputFrequency, outputRpm, lastReceived, pollIntervalMs,
                    rpmToHertz, commandQueue, procVars, modbusRtu, lastRead,
                    readAt, nParser, reqVars, apiVars, envVars, histVars >>

\* line 255 in parser: o.hash16.Sum(msg[:6]) stores the sum in msg[6] and
\* msg[7]; line 192 then compares signTest with msg
ParsHashSum ==
    /\ ~crashed
    /\ parsPc = "hSum"
    /\ LET signTest == HashSum(hash16, SubSeq(modbusRtu, 1, 6))
           msg      == signTest
       IN  /\ modbusRtu' = msg
           /\ IF signTest[7] = msg[7] /\ signTest[8] = msg[8]
              THEN parsPc' = "wrFreq" /\ lastRead' = lastRead
              ELSE parsPc' = "loop" /\ lastRead' = readAt
    /\ UNCHANGED << handleVars, procVars, readAt, nParser, reqVars, apiVars,
                    envVars, histVars >>

\* the commands of the API user while responses of the drive arrive
RaceTexts == { << "M", "3" >>, << "?" >> }

\* processor and parser side by side, signMessage call by call; the clock
\* is not followed
InitRace == /\ InitHandle /\ InitRest /\ clockOn = FALSE /\ budget = MaxRaceTokens
            /\ pollsLeft = 0 /\ testPc = "off" /\ testMsg = <<>>

NextRace ==
    \/ \E cfg \in Configs : Open(TRUE, cfg)
    \/ \E cmd \in RaceTexts : GCodeCall(cmd)
    \/ GCodeSend("user")
    \/ GCodeReturn("user")
    \/ ProcLoop
    \/ ProcRecv
    \/ ProcDec
    \/ ProcBuild
    \/ ProcHashReset
    \/ ProcHashWrite
    \/ ProcHashSum
    \/ ProcWrite
    \/ ProcWritten
    \/ DriveSend(FrameGood)
    \/ ParsStart
    \/ ParsLoop
    \/ ParsCall
    \/ \E k \in ChunkSizes : ParsReadMsg(k)
    \/ ParsHashReset
    \/ ParsHashWrite
    \/ ParsHashSum
    \/ ParsWrFreq
    \/ ParsWrRpm
    \/ ParsWrLast

SpecRace == InitRace /\ [][NextRace]_vars

\* the command path against the clock: the API user, the channel and
\* processor on a port that is open
InitQuiet == /\ InitHandle /\ InitRest /\ clockOn = TRUE /\ budget = MaxQuietTokens
             /\ pollsLeft = 0 /\ testPc = "off" /\ testMsg = <<>>

NextQuiet ==
    \/ \E cfg \in Configs : Open(TRUE, cfg)
    \/ \E d \in TickSteps : Tick(d)
    \/ \E cmd \in QuietTexts : GCodeCall(cmd)
    \/ GCodeSend("user")
    \/ GCodeReturn("user")
    \/ ProcLoop
    \/ ProcRecv
    \/ ProcDec
    \/ ProcDispatch
    \/ ProcWrite
    \/ ProcWritten

SpecQuiet == InitQuiet /\ [][NextQuiet]_vars

\* progress: the API user, the channel and processor on a port that is
\* open and never closed; the clock is not followed, a sleep ends in time
InitProgress == /\ InitHandle /\ InitRest /\ clockOn = FALSE
                /\ budget = MaxProgressTokens
                /\ pollsLeft = 0 /\ testPc = "off" /\ testMsg = <<>>

\* the steps of a GCode call of the API user that is in progress
UserStep ==
    GCodeSend("user") \/ GCodeFull("user") \/ GCodeDrop("user") \/ GCodeReturn("user")

NextProgress ==
    \/ \E cfg \in Configs : Open(TRUE, cfg)
    \/ \E cmd \in ProgressTexts : GCodeCall(cmd)
    \/ UserStep
    \/ ProcessorStep

\* the scheduler of Go runs processor and the goroutine of the caller when
\* they can take a step, and Write returns; the API user is free to call
\* Open and GCode or not
FairProgress == WF_vars(ProcessorStep) /\ WF_vars(UserStep)

SpecProgress == InitProgress /\ [][NextProgress]_vars /\ FairProgress

\* signMessage on its own: the payloads of the test
InitSign == /\ InitHandle /\ InitRest /\ clockOn = FALSE /\ budget = 0
            /\ pollsLeft = 0 /\ testPc = "new" /\ testMsg \in Payloads

NextSign ==
    \/ TestStart
    \/ TestInitCRC
    \/ TestSign

SpecSign == InitSign /\ [][NextSign]_vars

(***************************************************************************)
(* Properties.                                                             *)
(***************************************************************************)
\* the frames processor may write for the token tok
FramesOf(tok) ==
    { signMessage(o.payload) :
        o \in { d \in Dispatch(Normalize(tok), rpmToHertz) : d.payload # <<>> } }

\* C1: processor hands the tokens on in the order in which they were accepted
\* onto the channel: the channel holds the accepted tokens in that order, the
\* token in hand is the oldest accepted one, the frames written since it was
\* received are at most one and that one is the frame of this token, and at
\* most one Write is in progress.
C1_FifoSingleWriter ==
    /\ inflight <= 1
    /\ cmdChannel = owed
    /\ procPc \in {"dec", "dispatch", "write", "writing"} => due = <<procCmd>>
    /\ Len(wire) <= 1
    /\ \A i \in 1..Len(wire) : due # <<>> /\ wire[i] \in FramesOf(due[1])
    /\ procPc = "writing" => Len(wire) = 1 /\ inflight = 1

\* the "?" of outFrequencyRequester is being written while tokens of a call
\* of the user, accepted after it, wait on the channel
C1_Witness ==
    /\ procPc = "writing"
    /\ due = <<QueryToken>>
    /\ wire = <<signMessage(<<1, 4, 3, 1, 0, 0>>)>>
    /\ Len(owed) >= 3
    /\ call["user"].pc = "send"

\* a call that has handled all of its tokens and is about to return
Returning(c) == call[c].pc = "done"

\* the tokens of call c that were enqueued are the last ones on the channel
StillQueued(c) ==
    LET r == Len(call[c].got)
        n == Len(cmdChannel)
    IN  r <= n /\ SubSeq(cmdChannel, n - r + 1, n) = call[c].got

\* C2 (as the spec states it): the channel never holds more than 10 tokens; a
\* call of n tokens that found r < n free slots and saw no dequeue has
\* enqueued exactly its first r tokens and returns false; a call returns true
\* iff none of its tokens was dropped.
C2_AsStated ==
    /\ Len(cmdChannel) <= QueueCap
    /\ \A c \in Callers :
          Returning(c) =>
             /\ call[c].ok <=> Len(call[c].got) = Len(call[c].cmds)
             /\ (call[c].free0 < Len(call[c].cmds) /\ ~call[c].deq) =>
                    /\ call[c].got = SubSeq(call[c].cmds, 1, call[c].free0)
                    /\ StillQueued(c)
                    /\ ~call[c].ok

\* C2 (amended): as above, for a call during which nobody else changed the
\* channel either: no dequeue, no enqueue by another submitter, and no Open
\* creating the channel.
C2_Backpressure ==
    /\ Len(cmdChannel) <= QueueCap
    /\ \A c \in Callers :
          Returning(c) =>
             /\ call[c].ok <=> Len(call[c].got) = Len(call[c].cmds)
             /\ (call[c].free0 < Len(call[c].cmds) /\ ~call[c].deq /\ ~call[c].other) =>
                    /\ call[c].got = SubSeq(call[c].cmds, 1, call[c].free0)
                    /\ StillQueued(c)
                    /\ ~call[c].ok

\* a call of 11 tokens found r free slots, 0 < r < 11, nothing was dequeued
\* or enqueued by others, and it returns false with its first r tokens queued
C2_Witness ==
    /\ Returning("user")
    /\ Len(call["user"].cmds) = 11
    /\ call["user"].free0 \in 1..10
    /\ ~call["user"].deq /\ ~call["user"].other
    /\ Len(call["user"].got) = call["user"].free0
    /\ ~call["user"].ok

\* no GCode call is in progress
NoSubmit == \A c \in Callers : call[c].pc = "idle"

\* C3 (as the spec states it): the counter is never negative, and with no
\* submit call in progress it is the number of tokens accepted minus the
\* number dequeued.
C3_AsStated ==
    /\ commandQueue >= 0
    /\ NoSubmit => commandQueue = Len(owed)

\* C3 (amended): the counter is never negative, and with no submit call in
\* progress it is the number of tokens accepted minus the number of dequeued
\* tokens whose decrement has run: processor decrements after the receive,
\* so between the two the counter still counts the token it holds.
C3_PendingCount ==
    /\ commandQueue >= 0
    /\ NoSubmit => commandQueue = Len(owed) + (IF procPc = "dec" THEN 1 ELSE 0)

\* no call in progress, processor between the receive and the decrement,
\* further accepted tokens on the channel
C3_Witness ==
    /\ NoSubmit
    /\ procPc = "dec"
    /\ Len(owed) >= 2
    /\ commandQueue = Len(owed) + 1

\* the two trailing bytes of the 8-byte buffer f are the CRC16 of its first
\* six bytes
TrailerOk(f) ==
    /\ Len(f) = FrameLen
    /\ f[7] + 256 * f[8] = Crc16(SubSeq(f, 1, 6))

\* parser is on lines 196-198, storing the telemetry fields
Updating == parsPc \in {"wrFreq", "wrRpm", "wrLast"}

\* C4: the telemetry fields are stored only after the checksum has been
\* verified: parser reaches the stores of parseModbusRTU only for bytes whose
\* trailer is the CRC16 of the first six.
C4_ChecksumFirst == Updating => TrailerOk(sinceGap)

\* the frequency the bytes of the frame f carry
FrequencyOf(f) == f[5] * 256 + f[6]

\* the bytes read since the buffer was last empty are a correct response,
\* and parser has finished with them
Taken == ValidFrame(sinceGap) /\ parsPc \in {"loop", "call", "inread"}

\* C5: once the bytes read since the buffer was last empty are a response
\* with the correct CRC16, outputFrequency is hi*256+lo, outputRpm is derived
\* from it and lastReceived is the time of the store, not before the read;
\* a read less than 50 ms after the previous one keeps what was accumulated.
C5_Acceptance ==
    /\ [](/\ (ValidFrame(sinceGap) /\ parsPc \in {"wrRpm", "wrLast"}) =>
                outputFrequency = FrequencyOf(sinceGap)
          /\ (ValidFrame(sinceGap) /\ parsPc = "wrLast") =>
                outputRpm \in RpmOfFrequency(FrequencyOf(sinceGap), rpmToHertz)
          /\ Taken =>
                /\ outputFrequency = FrequencyOf(sinceGap)
                /\ outputRpm \in RpmOfFrequency(FrequencyOf(sinceGap), rpmToHertz)
                /\ lastReceived # ZeroTime
                /\ lastReceived >= readAt)
    /\ [][(parsPc = "wrLast" /\ parsPc' # "wrLast") => lastReceived' = now]_vars
    /\ [][(pending' # pending /\ pending # <<>> /\ now - lastRead < GapMs) =>
             sinceGap' = sinceGap \o SubSeq(pending, 1, Len(pending) - Len(pending'))]_vars

\* the response with frequency 3472 has been read after the start and
\* taken over
C5_Witness ==
    /\ Taken
    /\ sinceGap = FrameGood
    /\ outputFrequency = 3472
    /\ lastReceived = readAt
    /\ readAt >= 25
    /\ pending = <<>>

\* C6: Online is true iff a response with a correct checksum was taken over
\* less than 2 * pollInterval ago.
C6_OnlineIffRecent ==
    Online <=> (lastValid # ZeroTime /\ now - lastValid < 2 * pollIntervalMs)

\* C7: the channel and each of the three goroutines are created at most
\* once, exactly once after an Open, and an Open after the first changes
\* nothing of the handle, the goroutines, the calls or the environment.
C7_OpenOnce ==
    /\ [](/\ chanMade <= 1 /\ nProcessor <= 1 /\ nParser <= 1 /\ nRequester <= 1
          /\ onceDone => (chanMade = 1 /\ nProcessor = 1 /\ nParser = 1
                          /\ nRequester = 1))
    /\ [][(onceDone /\ \E b \in BOOLEAN, cfg \in Configs : Open(b, cfg)) =>
             UNCHANGED << handleVars, procVars, parsVars, reqVars, call, envVars,
                          histVars >>]_vars

\* a second Open has returned (nil, although the first one failed to bind),
\* and still one of each exists
C7_Witness ==
    /\ onceDone /\ ~crashed
    /\ port = "nil" /\ openRet = "nil"
    /\ chanMade = 1 /\ nProcessor = 1 /\ nParser = 1 /\ nRequester = 1

\* C8: no goroutine uses the port once Close has closed it, and
\* outFrequencyRequester enqueues nothing after that.
C8_NoIoAfterClose == closedIo = {}

\* C9: the process never crashes, and while the port is not bound Open
\* reports the error.
C9_NoCrash ==
    /\ ~crashed
    /\ (onceDone /\ port = "nil") => openRet = "error"

\* C10: signMessage returns the payload followed by exactly two bytes, the
\* CRC16 of the payload low byte first; 01 03 01 08 is followed by F1 8E.
C10_SignMessage ==
    testPc = "done" =>
        LET n == Len(testMsg)
        IN  /\ Len(testSigned) = n + 2
            /\ SubSeq(testSigned, 1, n) = testMsg
            /\ \A i \in 1..(n + 2) : testSigned[i] \in 0..255
            /\ testSigned[n + 1] + 256 * testSigned[n + 2] = Crc16(testMsg)
            /\ Crc16(testSigned) = 0
            /\ testMsg = <<1, 3, 1, 8>> =>
                  (testSigned[5] = 241 /\ testSigned[6] = 142)

\* the payload of the test has been signed
C10_Witness ==
    /\ testPc = "done"
    /\ testMsg = <<1, 3, 1, 8>>
    /\ testSigned = <<1, 3, 1, 8, 241, 142>>

\* the token processor has received, trimmed and in lower case
InHand == Normalize(due[1])

\* s followed by digits whose value fits 16 bits
SpeedToken(tok) ==
    /\ Len(tok) >= 2
    /\ tok[1] = "s"
    /\ \A i \in 2..Len(tok) : tok[i] \in Digits
    /\ ParseUint16(Tail(tok)) >= 0

\* the payloads the tokens stand for, <<>> for a token that writes nothing;
\* of a speed token the first three bytes
PayloadFor(tok) ==
    IF tok \in { <<"e", "n", "d">>, <<"m", "0">>, <<"m", "1">>, <<"m", "3", "0">>,
                 <<"m", "6", "0">>, <<"m", "5">>, <<"m", "0", "5">> }
    THEN <<1, 3, 1, 8>>
    ELSE IF tok \in { <<"m", "3">>, <<"m", "0", "3">> } THEN <<1, 3, 1, 1>>
    ELSE IF tok \in { <<"m", "4">>, <<"m", "0", "4">> } THEN <<1, 3, 1, 17>>
    ELSE IF tok = <<"?">> THEN <<1, 4, 3, 1, 0, 0>>
    ELSE IF SpeedToken(tok) THEN <<1, 5, 2>>
    ELSE <<>>

\* processor leaves the if-chain of lines 127-157
Dispatches == procPc = "dispatch" /\ procPc' # procPc

Handled == due # <<>> /\ procPc \in {"loop", "recv", "sleep", "exit"}

\* the Stop frame: 01 03 01 08 and its CRC16
StopFrame == <<1, 3, 1, 8, 241, 142>>

\* C12 (as the spec states it): for the token stop, in any letter case,
\* processor writes the Stop frame, as it does for m5.
C12_AsStated ==
    (Handled /\ InHand \in { <<"s", "t", "o", "p">>, <<"m", "5">> }) =>
        wire = <<StopFrame>>

\* C12 (amended): the word that stands for Stop is end, in any letter case:
\* for it processor writes the Stop frame, as it does for m5; stop is taken
\* for a speed whose number does not parse, and nothing is written for it.
C12_EndIsStop ==
    /\ (Handled /\ InHand \in { <<"e", "n", "d">>, <<"m", "5">> }) =>
          wire = <<StopFrame>>
    /\ (Handled /\ InHand = <<"s", "t", "o", "p">>) => wire = <<>>

\* "End" has been handled and the Stop frame is on the line
C12_Witness ==
    /\ Handled
    /\ due = << << "E", "n", "d" >> >>
    /\ wire = <<StopFrame>>

\* round(rpm * 3.47222), to the nearest integer
\* (the product is split at 1000 to stay within 32-bit arithmetic)
RoundedFrequency(rpm) ==
    LET a == rpm \div 1000
        b == rpm % 1000
    IN  rpm * 3 + a * 472 + (a * 22000 + b * 47222 + 50000) \div 100000

\* C13: for a speed token whose rounded product fits 16 bits, setFrequency
\* and the two bytes of the payload, high byte first, are
\* round(rpm * 3.47222).
C13_RoundedSpeed ==
    (procPc \in {"write", "writing", "sleep"} /\ SpeedToken(InHand)) =>
        LET f == RoundedFrequency(ParseUint16(Tail(InHand)))
        IN  f <= 65535 =>
               /\ setFrequency = f
               /\ procFrame[4] = f \div 256
               /\ procFrame[5] = f % 256

\* the payload of a signed frame
PayloadOf(frame) == SubSeq(frame, 1, Len(frame) - 2)

\* C14: whatever parser does in between, the frame processor hands to
\* Write is its payload followed by the CRC16 of that payload.
C14_SignIsolated ==
    procPc \in {"write", "writing"} =>
        /\ Len(procFrame) >= 2
        /\ procFrame = signMessage(PayloadOf(procFrame))

\* the decimal digits of r / 3.47222 one by one, then rounded to nearest
RECURSIVE DivDigits(_, _, _)
DivDigits(r, acc, n) ==
    IF n = 0
    THEN acc + (IF 2 * r >= 347222 THEN 1 ELSE 0)
    ELSE DivDigits((r * 10) % 347222, acc * 10 + (r * 10) \div 347222, n - 1)

\* round(f / 3.47222) for a 16-bit f
RoundedRpm(f) == DivDigits(f, 0, 5)

\* C15: in every state a caller of OutputFrequency and OutputRpm can see,
\* also between two field writes of parser, outputRpm is
\* round(outputFrequency / 3.47222).
C15_RpmFollowsFrequency ==
    (onceDone /\ ~crashed) => outputRpm = RoundedRpm(outputFrequency)

\* processor takes a token from the channel, or calls Write
TakesOrWrites == procPc' # procPc /\ procPc' \in {"dec", "writing"}

\* C16: once a Write has returned, processor neither takes the next token
\* from the channel nor calls Write again before 110 ms have passed,
\* whatever the command written was.
C16_QuietPeriod ==
    [][(TakesOrWrites /\ wroteAt # ZeroTime) => now >= wroteAt + QuietMs]_vars

\* a second frame is being written, a full pause after the first
C16_Witness ==
    /\ procPc = "writing"
    /\ wroteAt # ZeroTime
    /\ now >= wroteAt + QuietMs

\* the three goroutines have returned
AllExited == procPc = "exit" /\ parsPc = "exit" /\ reqPc = "exit"

\* C17: once Close has set stop, under fair scheduling processor, parser
\* and outFrequencyRequester all return (unless the process has panicked).
C17_ShutdownTerminates == stop ~> (crashed \/ AllExited)

\* parser is between two iterations of its loop, or in Read
BetweenReads == parsPc \in {"loop", "call", "inread"}

\* C18: the time the silence gap is measured from is the time of the last
\* Read that returned bytes; a Read that failed or returned nothing does
\* not move it.
C18_FailedReadKeepsReference == (BetweenReads /\ readAt > 0) => lastRead = readAt

\* lines 235-237 of Processed: commandsProcessed
CommandsProcessed == commandQueue = 0

\* processor holds a token it has taken from the channel and has not yet
\* written (or skipped)
TokenInHand == procPc \in {"dec", "dispatch", "write", "writing"}

\* C19: when Processed reports commandsProcessed, no accepted token waits
\* in the channel and none is still being handled by processor.
C19_ProcessedMeansHandled == CommandsProcessed => (owed = <<>> /\ ~TokenInHand)

\* the frame of the token in hand is on the line
Written ==
    /\ procPc \in {"writing", "sleep"}
    /\ Len(wire) = 1
    /\ LET p == PayloadFor(InHand)
       IN  p # <<>> /\ SubSeq(wire[1], 1, Len(p)) = p

\* C20: with the port open and never closed, every token accepted onto the
\* channel is received by processor in the end; a received token of the
\* table has its frame written in the end; and once no GCode call is in
\* progress any more, commandQueue returns to 0 and the channel runs empty.
C20_Progress ==
    /\ (owed # <<>>) ~> (procPc = "dec")
    /\ (procPc = "dec" /\ PayloadFor(InHand) # <<>>) ~> Written
    /\ <>[]NoSubmit => <>[](commandQueue = 0 /\ cmdChannel = <<>>)

\* all sub-commands have been submitted and accepted, the last one is
\* written, the channel is empty and the counter is back at 0
C20_Witness ==
    /\ budget = 0
    /\ NoSubmit
    /\ Written
    /\ cmdChannel = <<>>
    /\ commandQueue = 0

====
